---- MODULE Spec2Model ----
(***************************************************************************)
(* Model of courses/fast-and-lean-data-science/                            *)
(* benchmark_keras_multilingual_bert.ipynb: hardware detection, the CSV    *)
(* parsing helpers, the dataset pipeline, the evaluate / fit / evaluate    *)
(* cells and the prediction cell that writes submission.csv.               *)
(*                                                                         *)
(* Strings are sequences of one-character strings.                         *)
(***************************************************************************)
EXTENDS Integers, Sequences, FiniteSets, TLC

\* ------------------------------------------------------------------------
\* Program constants
\* ------------------------------------------------------------------------
SEQUENCE_LENGTH == 128

INT32_MAX == 2147483647

\* BATCH_SIZE = 64 * strategy.num_replicas_in_sync
PER_REPLICA_BATCH == 64

TRAIN_DATA_LENGTH == 223549

EPOCHS == 5

TEST_DATASET_SIZE == 63812

\* strategy.num_replicas_in_sync of the TPU the notebook ran on
TPU_REPLICAS == 8

\* digits after the decimal point written by '%f'
F_DECIMALS == 6

\* ------------------------------------------------------------------------
\* Bounds of the model
\* ------------------------------------------------------------------------
\* parse inputs have SEQUENCE_LENGTH - 1 .. SEQUENCE_LENGTH + MaxExtraElems elements
MaxExtraElems == 2
\* parse inputs carry 0 .. MaxPad blanks before and after the list
MaxPad == 1
\* machines without a TPU have 0 .. MaxGpus logical GPUs
MaxGpus == 2
\* test files have q * PER_REPLICA_BATCH + r rows, q <= MaxTestBatches, r <= MaxRemainder
MaxTestBatches == 2
MaxRemainder == 1
\* SpecSizes takes test files of up to SizeWindow rows, and of up to
\* SizeWindow rows less or more than TEST_DATASET_SIZE
SizeWindow == 70

\* ------------------------------------------------------------------------
\* Character strings
\* ------------------------------------------------------------------------
Digits == <<"0", "1", "2", "3", "4", "5", "6", "7", "8", "9">>

DigitChars == {Digits[d] : d \in 1..10}

IsDigit(c) == c \in DigitChars

DigitValues == [c \in DigitChars |-> (CHOOSE d \in 1..10 : Digits[d] = c) - 1]

DigitVal(c) == DigitValues[c]

RECURSIVE NatToStr(_)
NatToStr(n) ==
    IF n < 10 THEN <<Digits[n + 1]>>
    ELSE NatToStr(n \div 10) \o <<Digits[(n % 10) + 1]>>

\* str(int): decimal digits, '-' in front of a negative number
IntToStr(n) == IF n < 0 THEN <<"-">> \o NatToStr(0 - n) ELSE NatToStr(n)

RECURSIVE JoinRange(_, _, _, _)
JoinRange(parts, sep, lo, hi) ==
    IF lo > hi THEN <<>>
    ELSE IF lo = hi THEN parts[lo]
    ELSE LET mid == (lo + hi) \div 2
         IN  JoinRange(parts, sep, lo, mid) \o sep \o JoinRange(parts, sep, mid + 1, hi)

Join(parts, sep) == JoinRange(parts, sep, 1, Len(parts))

Blanks(n) == [i \in 1..n |-> " "]

\* the printable list "(v1<sep>v2<sep>...<sep>vK)" of the preprocessed CSV files
RenderList(values, sep) ==
    <<"(">> \o Join([i \in 1..Len(values) |-> IntToStr(values[i])], sep) \o <<")">>

\* ------------------------------------------------------------------------
\* parse_string_list_into_ints and the tf.strings operations it calls
\* ------------------------------------------------------------------------
RECURSIVE LeadingBlanks(_, _)
LeadingBlanks(s, i) ==
    IF i <= Len(s) /\ s[i] = " " THEN LeadingBlanks(s, i + 1) ELSE i - 1

RECURSIVE TrailingBlanks(_, _)
TrailingBlanks(s, i) ==
    IF i >= 1 /\ s[i] = " " THEN TrailingBlanks(s, i - 1) ELSE Len(s) - i

\* tf.strings.strip: removes leading and trailing whitespace
Strip(s) == SubSeq(s, LeadingBlanks(s, 1) + 1, Len(s) - TrailingBlanks(s, Len(s)))

\* tf.strings.substr(s, pos, len): 0-based pos, cut at the end of the string
Substr(s, pos, len) ==
    LET last == IF pos + len > Len(s) THEN Len(s) ELSE pos + len
    IN  SubSeq(s, pos + 1, last)

\* tf.strings.split(s, sep, maxsplit): at most maxsplit splits, left to right;
\* what follows the last split stays whole in the last piece
\* the positions of the separator in s, in increasing order
SepPositions(s, sep) ==
    SelectSeq([i \in 1..Len(s) |-> IF s[i] = sep THEN i ELSE 0], LAMBDA x : x > 0)

\* the pieces of s between the first n separator positions of pos
CutAt(s, pos, n) ==
    [j \in 1..(n + 1) |->
        SubSeq(s, IF j = 1 THEN 1 ELSE pos[j - 1] + 1,
                  IF j <= n THEN pos[j] - 1 ELSE Len(s))]

SplitPieces(s, pos, maxsplit) ==
    CutAt(s, pos, IF Len(pos) > maxsplit THEN maxsplit ELSE Len(pos))

Split(s, sep, maxsplit) == SplitPieces(s, SepPositions(s, sep), maxsplit)

RECURSIVE DigitsToNat(_, _, _)
DigitsToNat(s, i, acc) ==
    IF i > Len(s) THEN acc ELSE DigitsToNat(s, i + 1, acc * 10 + DigitVal(s[i]))

\* tf.strings.to_number(piece, tf.int32): blanks around the number are skipped,
\* one optional sign, then digits only; anything else, or a value outside
\* int32, is an InvalidArgument error
RECURSIVE LeadingZeros(_, _)
LeadingZeros(s, i) ==
    IF i < Len(s) /\ s[i] = "0" THEN LeadingZeros(s, i + 1) ELSE i - 1

\* the value of the digits sig, which have no leading zero; the value is
\* compared with the limit before it is computed: hi is all but the last digit
NumberOf(sig, neg) ==
    LET hi    == DigitsToNat(SubSeq(sig, 1, Len(sig) - 1), 1, 0)
        lo    == DigitVal(sig[Len(sig)])
        limit == IF neg THEN (INT32_MAX % 10) + 1 ELSE INT32_MAX % 10
        fits  == \/ Len(sig) < 10
                 \/ Len(sig) = 10 /\ hi < INT32_MAX \div 10
                 \/ Len(sig) = 10 /\ hi = INT32_MAX \div 10 /\ lo <= limit
    IN  IF ~fits THEN [err |-> TRUE, val |-> 0]
        ELSE IF neg THEN [err |-> FALSE, val |-> (0 - (hi * 10)) - lo]
        ELSE [err |-> FALSE, val |-> hi * 10 + lo]

SignedNumber(body, neg) ==
    IF Len(body) > 0 /\ \A i \in 1..Len(body) : IsDigit(body[i])
    THEN NumberOf(SubSeq(body, LeadingZeros(body, 1) + 1, Len(body)), neg)
    ELSE [err |-> TRUE, val |-> 0]

StrippedNumber(t) ==
    IF Len(t) > 0 /\ t[1] = "-" THEN SignedNumber(Tail(t), TRUE)
    ELSE SignedNumber(t, FALSE)

ToNumber(piece) == StrippedNumber(Strip(piece))

\* a reshape that accepts any number of elements
ReshapeUnchecked(s, n) == [err |-> FALSE, val |-> s]

\* tf.reshape(s, [n]): the number of elements must be n
Reshape(s, n) ==
    IF Len(s) = n THEN [err |-> FALSE, val |-> s] ELSE [err |-> TRUE, val |-> <<>>]

ToNumbers(pieces) == [i \in 1..Len(pieces) |-> ToNumber(pieces[i])]

ReshapeNumbers(nums, n) ==
    IF \E i \in 1..Len(nums) : nums[i].err
    THEN [err |-> TRUE, val |-> <<>>]
    ELSE Reshape([i \in 1..Len(nums) |-> nums[i].val], n)

StripParens(strlist, stripped) == Substr(strlist, 1, Len(stripped) - 2)

parse_string_list_into_ints(strlist) ==
    ReshapeNumbers(
        ToNumbers(Split(StripParens(strlist, Strip(strlist)), ",", SEQUENCE_LENGTH)),
        SEQUENCE_LENGTH)

\* ------------------------------------------------------------------------
\* format_sentences and make_sentence_dataset_from_csv
\* ------------------------------------------------------------------------
\* Python's None; like None, the empty string is false in "if language_to_filter:"
None == ""

ListColumns == {"input_word_ids", "input_mask", "all_segment_id"}

\* dict restricted to some of its keys
Restrict(data, keys) == [k \in keys |-> data[k]]

\* data.pop(key): the dict without the key
Pop(data, key) == Restrict(data, (DOMAIN data) \ {key})

ParseColumns(data) == [k \in DOMAIN data |-> parse_string_list_into_ints(data[k])]

FormatResult(parsed, labels) ==
    IF \E k \in DOMAIN parsed : parsed[k].err
    THEN [err |-> TRUE, features |-> <<>>, labels |-> labels]
    ELSE [err |-> FALSE, features |-> [k \in DOMAIN parsed |-> parsed[k].val],
          labels |-> labels]

format_sentences(data, label, remove_language) ==
    FormatResult(
        ParseColumns(IF remove_language # None THEN Pop(Pop(data, label), "lang")
                     ELSE Pop(data, label)),
        [labels |-> data[label]])

\* SELECTED_COLUMNS; 'lang' is selected only when a language filter is given
SelectedColumns(label, language_to_filter) ==
    IF language_to_filter # None THEN {label, "lang"} \cup ListColumns
    ELSE {label} \cup ListColumns

\* make_csv_dataset(..., batch_size=1, num_epochs=1, shuffle=False).unbatch():
\* the rows of the file in file order, each a dict of the selected columns
CsvDataset(file, columns) == [i \in 1..Len(file) |-> Restrict(file[i], columns)]

\* a dataset that is not filtered
FilterLanguageSkipped(dataset, language_to_filter) == dataset

\* dataset.filter(lambda data: data['lang'] == language_to_filter)
FilterLanguage(dataset, language_to_filter) ==
    IF language_to_filter # None
    THEN SelectSeq(dataset, LAMBDA data : data["lang"] = language_to_filter)
    ELSE dataset

MapFormat(dataset, label, language_to_filter) ==
    [i \in 1..Len(dataset) |-> format_sentences(dataset[i], label, language_to_filter)]

\* a failing element makes the iteration of the dataset fail
DatasetResult(elems) ==
    IF \E i \in 1..Len(elems) : elems[i].err
    THEN [err |-> TRUE, val |-> <<>>]
    ELSE [err |-> FALSE,
          val |-> [i \in 1..Len(elems) |->
                      [features |-> elems[i].features, labels |-> elems[i].labels]]]

make_sentence_dataset_from_csv(file, label, language_to_filter) ==
    DatasetResult(
        MapFormat(
            FilterLanguage(CsvDataset(file, SelectedColumns(label, language_to_filter)),
                           language_to_filter),
            label, language_to_filter))

\* ------------------------------------------------------------------------
\* make_dataset_pipeline and the tf.data operations of the prediction cell
\* ------------------------------------------------------------------------
\* number of batches of dataset.batch(size, drop_remainder) over n elements
BatchCount(n, size, drop_remainder) ==
    IF drop_remainder THEN n \div size ELSE (n + size - 1) \div size

Batch(dataset, size, drop_remainder) ==
    [k \in 1..BatchCount(Len(dataset), size, drop_remainder) |->
        SubSeq(dataset, (k - 1) * size + 1,
               IF k * size > Len(dataset) THEN Len(dataset) ELSE k * size)]

RECURSIVE UnbatchRange(_, _, _)
UnbatchRange(batches, lo, hi) ==
    IF lo > hi THEN <<>>
    ELSE IF lo = hi THEN batches[lo]
    ELSE LET mid == (lo + hi) \div 2
         IN  UnbatchRange(batches, lo, mid) \o UnbatchRange(batches, mid + 1, hi)

\* dataset.unbatch()
Unbatch(batches) == UnbatchRange(batches, 1, Len(batches))

\* make_dataset_pipeline(dataset, repeat_and_shuffle=False): cache, then
\* batch(BATCH_SIZE, drop_remainder=True); prefetch changes no element
make_dataset_pipeline(dataset, batch_size) == Batch(dataset, batch_size, TRUE)

\* number of elements that make_dataset_pipeline(repeat_and_shuffle=False)
\* passes on out of n
PipelineSize(n, batch_size) == BatchCount(n, batch_size, TRUE) * batch_size

\* size of next(iter(dataset.batch(size))) over n elements; 0 stands for the
\* StopIteration of an empty dataset
FirstBatchSize(n, size) == IF n > size THEN size ELSE n

\* ------------------------------------------------------------------------
\* The model: m-BERT, Dense(32, relu), Dense(1, sigmoid)
\* ------------------------------------------------------------------------
RECURSIVE Pow10(_)
Pow10(k) == IF k = 0 THEN 1 ELSE 10 * Pow10(k - 1)

\* probabilities are counted in units of 10^-(F_DECIMALS + 1), one digit more
\* than '%f' writes; ProbOne is 1.0
ProbOne == Pow10(F_DECIMALS + 1)

\* values the sigmoid takes, from 0.0 to 1.0, in increasing order
SigmoidTable ==
    <<0, 4, 5, 15, 25, 139236, 1574978, ProbOne - 6, ProbOne - 5, ProbOne - 1, ProbOne>>

\* the pre-activation of the last unit, as an index; m-BERT and the dense
\* layers are a function of the weights and of the three inputs
Logit(weights, features) ==
    (features["input_word_ids"][2] * (weights + 1)
       + features["input_mask"][3] + features["all_segment_id"][1])
    % Len(SigmoidTable)

\* a last layer without the sigmoid: values from 0.0 to 2.0
LinearActivation(z) == z * (ProbOne \div 5)

\* activation='sigmoid': a value between 0.0 and 1.0
Sigmoid(z) == SigmoidTable[z + 1]

\* the output of multilingual_bert for one example, shape (1,)
multilingual_bert_model(weights, features) == <<Sigmoid(Logit(weights, features))>>

\* model.predict(dataset of batches of sentences): one output row per example
\* of every batch, in dataset order
ModelPredict(weights, batches) ==
    Unbatch([k \in 1..Len(batches) |->
                [i \in 1..Len(batches[k]) |-> multilingual_bert_model(weights, batches[k][i])]])

\* np.squeeze of an (M, 1) array, M # 1
Squeeze(preds) == [i \in 1..Len(preds) |-> preds[i][1]]

\* ------------------------------------------------------------------------
\* Writing submission.csv
\* ------------------------------------------------------------------------
\* ndarray.astype('U') of int32: the decimal string of each id
astype_U(ids) == [i \in 1..Len(ids) |-> IntToStr(ids[i])]

ZeroPad(digits, width) ==
    [i \in 1..(width - Len(digits)) |-> "0"] \o digits

\* '%f' % p for p >= 0: F_DECIMALS digits after the point, the digit beyond
\* them rounded off, a tie to the even neighbour
FormatF(p) ==
    LET q    == p \div 10
        r    == p % 10
        m    == IF r > 5 \/ (r = 5 /\ q % 2 = 1) THEN q + 1 ELSE q
        unit == Pow10(F_DECIMALS)
    IN  NatToStr(m \div unit) \o <<".">> \o ZeroPad(NatToStr(m % unit), F_DECIMALS)

\* the header line with the default comments='# '
HeaderLineCommented == <<"#", " ", "i", "d", ",", "t", "o", "x", "i", "c">>

\* header='id,toxic', comments='': the header line as written
HeaderLine == <<"i", "d", ",", "t", "o", "x", "i", "c">>

\* np.savetxt(rows, fmt=['%s', '%f'], delimiter=',', header=..., comments='')
SaveTxt(ids, probs) ==
    <<HeaderLine>> \o [i \in 1..Len(ids) |-> ids[i] \o <<",">> \o FormatF(probs[i])]

\* ------------------------------------------------------------------------
\* Preprocessed CSV files
\* ------------------------------------------------------------------------
\* token ids of the sentence of example e: [CLS] one word piece [SEP], then padding
WordIds(e) ==
    [k \in 1..SEQUENCE_LENGTH |->
        IF k = 1 THEN 101 ELSE IF k = 2 THEN 1000 + e ELSE IF k = 3 THEN 102 ELSE 0]

InputMask == [k \in 1..SEQUENCE_LENGTH |-> IF k <= 3 THEN 1 ELSE 0]

SegmentIds == [k \in 1..SEQUENCE_LENGTH |-> 0]

\* the lists are written as Python prints them, ", " between the elements
ListSep == <<",", " ">>

\* the text of the padding of WordIds, from after [SEP] to the closing parenthesis
PaddingText ==
    Join([k \in 1..(SEQUENCE_LENGTH - 3) |-> ListSep \o <<"0">>], <<>>) \o <<")">>

WordIdsText(e) ==
    <<"(">> \o IntToStr(101) \o ListSep \o IntToStr(1000 + e) \o ListSep \o IntToStr(102)
        \o PaddingText

InputMaskText == RenderList(InputMask, ListSep)

SegmentIdsText == RenderList(SegmentIds, ListSep)

\* one row of a preprocessed file: example e, written in language lang
CsvRow(e, lang) ==
    [id |-> e, lang |-> lang, toxic |-> e % 2,
     input_word_ids |-> WordIdsText(e),
     input_mask     |-> InputMaskText,
     all_segment_id |-> SegmentIdsText]

\* ------------------------------------------------------------------------
\* State
\* ------------------------------------------------------------------------
VARIABLES
    p_pc,       \* SpecParse: "input" | "parsed"
    p_values,   \* SpecParse: the integers the input string was rendered from
    p_pad,      \* SpecParse: <<blanks before, blanks after>> the list
    p_str,      \* SpecParse: the input string
    p_out,      \* SpecParse: result of parse_string_list_into_ints
    c_pc,       \* SpecCsv: "input" | "made"
    c_file,     \* SpecCsv: the rows of the file
    c_label,    \* SpecCsv: the label argument, 'toxic' or 'id'
    c_filter,   \* SpecCsv: the language_to_filter argument
    c_out,      \* SpecCsv: the elements of the dataset
    hw,             \* the machine: [tpu |-> BOOLEAN, gpus |-> number of logical GPUs]
    pc,             \* the statement of the notebook that runs next
    tpu,            \* "unbound" | "None" | "TPUClusterResolver"
    gpus,           \* [bound |-> BOOLEAN, n |-> length of the list]
    name_error,     \* a statement read gpus while it was unbound
    strategy,       \* "unbound" | "TPUStrategy" | "MirroredStrategy" | "DefaultStrategy"
    replicas,       \* strategy.num_replicas_in_sync
    policy,         \* "unset" | "mixed_bfloat16" | "mixed_float16"
    jit,            \* tf.config.optimizer.set_jit(True) was called
    BATCH_SIZE,
    STEPS_PER_EPOCH,
    weights,        \* the weights of multilingual_bert
    eval_before,    \* validation sets evaluated by the cell before fit, in order
    eval_after,     \* validation sets evaluated by the cell after fit, in order
    epoch,          \* epochs completed by fit
    step,           \* training steps done in the running epoch
    consumed,       \* training examples consumed in the running epoch
    train_steps,    \* training steps done by fit
    validations,    \* evaluations of the Combined set done by fit
    test_file,      \* rows of the preprocessed test file
    test_cache,     \* the elements cached by test_dataset's cache()
    probabilities,
    test_ids,
    submission,     \* lines of submission.csv; <<>> while it is not written
    s_pc,       \* SpecSizes: the statement of the prediction cell that runs next
    s_batch,    \* SpecSizes: BATCH_SIZE
    s_rows,     \* SpecSizes: number of rows of the test file
    s_probs,    \* SpecSizes: length of probabilities
    s_ids,      \* SpecSizes: length of test_ids
    s_lines     \* SpecSizes: number of lines of submission.csv

p_vars == <<p_pc, p_values, p_pad, p_str, p_out>>

c_vars == <<c_pc, c_file, c_label, c_filter, c_out>>

hw_vars == <<tpu, gpus, name_error, strategy, replicas, policy, jit>>

cfg_vars == <<BATCH_SIZE, STEPS_PER_EPOCH>>

fit_vars == <<epoch, step, consumed, train_steps, validations>>

out_vars == <<test_file, test_cache, probabilities, test_ids, submission>>

run_vars == <<hw, pc, hw_vars, cfg_vars, weights, eval_before, eval_after, fit_vars, out_vars>>

s_vars == <<s_pc, s_batch, s_rows, s_probs, s_ids, s_lines>>

vars == <<p_vars, c_vars, run_vars, s_vars>>

s_Idle ==
    /\ s_pc = "idle"
    /\ s_batch = PER_REPLICA_BATCH
    /\ s_rows = 0
    /\ s_probs = 0
    /\ s_ids = 0
    /\ s_lines = 0

p_Idle ==
    /\ p_pc = "idle"
    /\ p_values = <<>>
    /\ p_pad = <<0, 0>>
    /\ p_str = <<>>
    /\ p_out = [err |-> FALSE, val |-> <<>>]

run_Start ==
    /\ tpu = "unbound"
    /\ gpus = [bound |-> FALSE, n |-> 0]
    /\ name_error = FALSE
    /\ strategy = "unbound"
    /\ replicas = 0
    /\ policy = "unset"
    /\ jit = FALSE
    /\ BATCH_SIZE = 0
    /\ STEPS_PER_EPOCH = 0
    /\ weights = 0
    /\ eval_before = <<>>
    /\ eval_after = <<>>
    /\ epoch = 0
    /\ step = 0
    /\ consumed = 0
    /\ train_steps = 0
    /\ validations = 0
    /\ test_file = <<>>
    /\ test_cache = <<>>
    /\ probabilities = <<>>
    /\ test_ids = <<>>
    /\ submission = <<>>

run_Idle ==
    /\ hw = [tpu |-> FALSE, gpus |-> 0]
    /\ pc = "idle"
    /\ run_Start

c_Idle ==
    /\ c_pc = "idle"
    /\ c_file = <<>>
    /\ c_label = "toxic"
    /\ c_filter = None
    /\ c_out = [err |-> FALSE, val |-> <<>>]

\* ------------------------------------------------------------------------
\* The notebook, run from the first cell to the last
\* ------------------------------------------------------------------------
Hardware ==
    {[tpu |-> TRUE, gpus |-> 0]} \cup {[tpu |-> FALSE, gpus |-> g] : g \in 0..MaxGpus}

\* the weights of the model, as abstract values
Weights == {0, 1}

\* one step of SGD on a batch: other weights
SgdUpdate(w) == (w + 1) % Cardinality(Weights)

\* nonenglish_val_datasets, in the order the keys were inserted
ValidationSets == <<"Spanish", "Italian", "Turkish", "Combined">>

TestSizes ==
    {q * PER_REPLICA_BATCH + r : q \in 0..MaxTestBatches, r \in 0..MaxRemainder}

\* the test file of n rows: examples 0 .. n-1 in file order
TestFile(n) == [i \in 1..n |-> CsvRow(i - 1, "en")]

Init ==
    /\ p_Idle
    /\ s_Idle
    /\ c_Idle
    /\ hw \in Hardware
    /\ pc = "detect"
    /\ run_Start

\* try: tpu = TPUClusterResolver()  except ValueError: tpu = None; gpus = ...
DetectHardware ==
    /\ pc = "detect"
    /\ IF hw.tpu
       THEN /\ tpu' = "TPUClusterResolver"
            /\ UNCHANGED gpus
       ELSE /\ tpu' = "None"
            /\ gpus' = [bound |-> TRUE, n |-> hw.gpus]
    /\ pc' = "strategy"
    /\ UNCHANGED <<hw, name_error, strategy, replicas, policy, jit, cfg_vars, weights,
                   eval_before, eval_after, fit_vars, out_vars, p_vars, c_vars, s_vars>>

\* a test of len(gpus) that comes before the test of tpu
ReadsGpusAlways(t) == TRUE

\* "if tpu: ... elif len(gpus) > 1: ... else: ...": the elif condition, and
\* with it gpus, is evaluated only when tpu is None
ReadsGpus(t) == t = "None"

ChooseStrategy(t, g) ==
    IF t # "None" THEN "TPUStrategy"
    ELSE IF g.n > 1 THEN "MirroredStrategy"
    ELSE "DefaultStrategy"

NumReplicas(s, g) ==
    IF s = "TPUStrategy" THEN TPU_REPLICAS
    ELSE IF s = "MirroredStrategy" THEN g.n
    ELSE 1

SelectStrategy ==
    /\ pc = "strategy"
    /\ IF ReadsGpus(tpu) /\ ~gpus.bound
       THEN /\ name_error' = TRUE
            /\ pc' = "error"
            /\ UNCHANGED <<strategy, replicas>>
       ELSE /\ strategy' = ChooseStrategy(tpu, gpus)
            /\ replicas' = NumReplicas(ChooseStrategy(tpu, gpus), gpus)
            /\ pc' = "policy"
            /\ UNCHANGED name_error
    /\ UNCHANGED <<hw, tpu, gpus, policy, jit, cfg_vars, weights,
                   eval_before, eval_after, fit_vars, out_vars, p_vars, c_vars, s_vars>>

MIXED_PRECISION == TRUE

ChoosePolicy(t) == IF t # "None" THEN "mixed_bfloat16" ELSE "mixed_float16"

SetPolicy ==
    /\ pc = "policy"
    /\ IF MIXED_PRECISION
       THEN /\ policy' = ChoosePolicy(tpu)
            /\ jit' = (tpu = "None")
       ELSE UNCHANGED <<policy, jit>>
    /\ pc' = "config"
    /\ UNCHANGED <<hw, tpu, gpus, name_error, strategy, replicas, cfg_vars, weights,
                   eval_before, eval_after, fit_vars, out_vars, p_vars, c_vars, s_vars>>

\* the number of steps rounded up instead of down
StepsPerEpochCeil(length, batch_size) == (length + batch_size - 1) \div batch_size

\* STEPS_PER_EPOCH = TRAIN_DATA_LENGTH // BATCH_SIZE
StepsPerEpoch(length, batch_size) == length \div batch_size

\* BATCH_SIZE = 64 * strategy.num_replicas_in_sync
Configure ==
    /\ pc = "config"
    /\ BATCH_SIZE' = PER_REPLICA_BATCH * replicas
    /\ STEPS_PER_EPOCH' = StepsPerEpoch(TRAIN_DATA_LENGTH, PER_REPLICA_BATCH * replicas)
    /\ pc' = "load"
    /\ UNCHANGED <<hw, hw_vars, weights, eval_before, eval_after, fit_vars, out_vars,
                   p_vars, c_vars, s_vars>>

\* the cells that define the parsing functions and set up the training and
\* validation pipelines; the datasets are read when they are iterated
LoadData ==
    /\ pc = "load"
    /\ pc' = "build"
    /\ UNCHANGED <<hw, hw_vars, cfg_vars, weights, eval_before, eval_after, fit_vars,
                   out_vars, p_vars, c_vars, s_vars>>

\* multilingual_bert = multilingual_bert_model(); compile(...): the pretrained
\* weights of m-BERT and randomly initialised dense layers
BuildModel ==
    /\ pc = "build"
    /\ weights' \in Weights
    /\ pc' = "eval_before"
    /\ UNCHANGED <<hw, hw_vars, cfg_vars, eval_before, eval_after, fit_vars, out_vars,
                   p_vars, c_vars, s_vars>>

\* a loop that ends after its first iteration
LoopDoneAfterFirst(n) == n = 1

\* "for language in nonenglish_val_datasets": the loop ends after n iterations
\* when n is the number of validation sets
LoopDone(n) == n = Len(ValidationSets)

\* one iteration of "for language in nonenglish_val_datasets: evaluate(...)"
EvaluateBefore ==
    /\ pc = "eval_before"
    /\ eval_before' = Append(eval_before, ValidationSets[Len(eval_before) + 1])
    /\ pc' = IF LoopDone(Len(eval_before) + 1) THEN "fit" ELSE "eval_before"
    /\ UNCHANGED <<hw, hw_vars, cfg_vars, weights, eval_after, fit_vars, out_vars,
                   p_vars, c_vars, s_vars>>

\* one training step of fit: one batch of BATCH_SIZE examples of the repeated,
\* shuffled training stream, and an update of the weights
TrainStep ==
    /\ pc = "fit"
    /\ step < STEPS_PER_EPOCH
    /\ step' = step + 1
    /\ train_steps' = train_steps + 1
    /\ consumed' = consumed + BATCH_SIZE
    /\ weights' = SgdUpdate(weights)
    /\ UNCHANGED <<hw, pc, hw_vars, cfg_vars, eval_before, eval_after, epoch, validations,
                   out_vars, p_vars, c_vars, s_vars>>

\* the end of an epoch of fit: validation_data is evaluated, and fit returns
\* after the last of the epochs
ValidateEpoch ==
    /\ pc = "fit"
    /\ step = STEPS_PER_EPOCH
    /\ validations' = validations + 1
    /\ epoch' = epoch + 1
    /\ step' = 0
    /\ consumed' = 0
    /\ pc' = IF epoch + 1 = EPOCHS THEN "eval_after" ELSE "fit"
    /\ UNCHANGED <<hw, hw_vars, cfg_vars, weights, eval_before, eval_after, train_steps,
                   out_vars, p_vars, c_vars, s_vars>>

EvaluateAfter ==
    /\ pc = "eval_after"
    /\ eval_after' = Append(eval_after, ValidationSets[Len(eval_after) + 1])
    /\ pc' = IF LoopDone(Len(eval_after) + 1) THEN "make_test" ELSE "eval_after"
    /\ UNCHANGED <<hw, hw_vars, cfg_vars, weights, eval_before, fit_vars, out_vars,
                   p_vars, c_vars, s_vars>>

\* test_dataset = make_dataset_pipeline(make_sentence_dataset_from_csv(...,
\* label='id'), repeat_and_shuffle=False): nothing is read yet; test_file is
\* the file that the name refers to
MakeTestDataset ==
    /\ pc = "make_test"
    /\ \E n \in TestSizes : test_file' = TestFile(n)
    /\ pc' = "predict"
    /\ UNCHANGED <<hw, hw_vars, cfg_vars, weights, eval_before, eval_after, fit_vars,
                   test_cache, probabilities, test_ids, submission, p_vars, c_vars, s_vars>>

\* test_dataset.map(lambda sentence, idnum: sentence)
MapSentences(batches) ==
    [k \in 1..Len(batches) |-> [i \in 1..Len(batches[k]) |-> batches[k][i].features]]

\* the ids of a pass that yields every batch in the opposite order
MapIdsReversed(batches) ==
    [k \in 1..Len(batches) |->
        [i \in 1..Len(batches[k]) |-> batches[k][Len(batches[k]) - i + 1].labels]]

\* test_dataset.map(lambda sentence, idnum: idnum)
MapIds(batches) ==
    [k \in 1..Len(batches) |-> [i \in 1..Len(batches[k]) |-> batches[k][i].labels]]

\* probabilities = np.squeeze(multilingual_bert.predict(test_sentences_dataset))
\* The first pass over test_dataset reads the file and fills the cache.
PredictWith(dataset) ==
    IF dataset.err
    THEN /\ pc' = "error"
         /\ UNCHANGED <<test_cache, probabilities>>
    ELSE /\ test_cache' = dataset.val
         /\ \E batches \in {make_dataset_pipeline(dataset.val, BATCH_SIZE)} :
               \/ /\ probabilities' = Squeeze(ModelPredict(weights, MapSentences(batches)))
                  /\ pc' = "ids"
               \* predict over a dataset without a single batch: this version of
               \* Keras may also refuse it
               \/ /\ Len(batches) = 0
                  /\ pc' = "error"
                  /\ UNCHANGED probabilities

Predict ==
    /\ pc = "predict"
    /\ \E dataset \in {make_sentence_dataset_from_csv(test_file, "id", None)} :
          PredictWith(dataset)
    /\ UNCHANGED <<hw, hw_vars, cfg_vars, weights, eval_before, eval_after, fit_vars,
                   test_file, test_ids, submission, p_vars, c_vars, s_vars>>

\* next(iter(dataset.batch(size))): the first batch
FirstBatch(dataset, size) == SubSeq(dataset, 1, FirstBatchSize(Len(dataset), size))

\* dataset.map(lambda d: d['labels']) over the elements of one batch
LabelsOf(batch) == [i \in 1..Len(batch) |-> batch[i]["labels"]]

\* test_ids = next(iter(test_ids_dataset.batch(TEST_DATASET_SIZE)))['labels']
\*                .numpy().astype('U')
\* The second pass over test_dataset reads the cache.
GatherIdsFrom(ids_dataset) ==
    IF Len(ids_dataset) = 0
    THEN /\ pc' = "error"
         /\ UNCHANGED test_ids
    ELSE /\ \E first \in {FirstBatch(ids_dataset, TEST_DATASET_SIZE)} :
               test_ids' = astype_U(LabelsOf(first))
         /\ pc' = "save"

GatherIds ==
    /\ pc = "ids"
    /\ \E ids_dataset \in {Unbatch(MapIds(make_dataset_pipeline(test_cache, BATCH_SIZE)))} :
          GatherIdsFrom(ids_dataset)
    /\ UNCHANGED <<hw, hw_vars, cfg_vars, weights, eval_before, eval_after, fit_vars,
                   test_file, test_cache, probabilities, submission, p_vars, c_vars, s_vars>>

\* np.savetxt('submission.csv', np.rec.fromarrays([test_ids, probabilities]), ...)
\* fromarrays raises ValueError when the two arrays differ in shape
WriteSubmission ==
    /\ pc = "save"
    /\ IF Len(test_ids) # Len(probabilities)
       THEN /\ pc' = "error"
            /\ UNCHANGED submission
       ELSE /\ submission' = SaveTxt(test_ids, probabilities)
            /\ pc' = "done"
    /\ UNCHANGED <<hw, hw_vars, cfg_vars, weights, eval_before, eval_after, fit_vars,
                   test_file, test_cache, probabilities, test_ids, p_vars, c_vars, s_vars>>

Next ==
    \/ DetectHardware
    \/ SelectStrategy
    \/ SetPolicy
    \/ Configure
    \/ LoadData
    \/ BuildModel
    \/ EvaluateBefore
    \/ TrainStep
    \/ ValidateEpoch
    \/ EvaluateAfter
    \/ MakeTestDataset
    \/ Predict
    \/ GatherIds
    \/ WriteSubmission

Spec == Init /\ [][Next]_vars

\* ------------------------------------------------------------------------
\* Specification of the parser on its own
\* ------------------------------------------------------------------------
ParseElemValues == {0, 102, 0 - 7, INT32_MAX}

ParseLengths == (SEQUENCE_LENGTH - 1)..(SEQUENCE_LENGTH + MaxExtraElems)

\* all elements a, except element p which is b
ParseList(k, a, b, p) == [i \in 1..k |-> IF i = p THEN b ELSE a]

ParseSeparators == {<<",">>, <<",", " ">>}

ParseInit ==
    /\ c_Idle
    /\ s_Idle
    /\ run_Idle
    /\ p_pc = "input"
    /\ p_out = [err |-> FALSE, val |-> <<>>]
    /\ \E k \in ParseLengths, a \in ParseElemValues, b \in ParseElemValues,
          p \in {1, SEQUENCE_LENGTH \div 2, SEQUENCE_LENGTH - 1},
          sep \in ParseSeparators, lp \in 0..MaxPad, rp \in 0..MaxPad :
          /\ p_values = ParseList(k, a, b, p)
          /\ p_pad = <<lp, rp>>
          /\ p_str = Blanks(lp) \o RenderList(ParseList(k, a, b, p), sep) \o Blanks(rp)

Parse ==
    /\ p_pc = "input"
    /\ p_out' = parse_string_list_into_ints(p_str)
    /\ p_pc' = "parsed"
    /\ UNCHANGED <<p_values, p_pad, p_str, c_vars, run_vars, s_vars>>

ParseNext == Parse

SpecParse == ParseInit /\ [][ParseNext]_vars

\* ------------------------------------------------------------------------
\* Specification of make_sentence_dataset_from_csv on its own
\* ------------------------------------------------------------------------
MaxCsvRows == 3

Languages == {"es", "it", "tr"}

\* files of n rows, examples 1..n in file order, every assignment of languages
CsvFiles ==
    UNION { { [i \in 1..n |-> CsvRow(i, langs[i])] : langs \in [1..n -> Languages] }
            : n \in 0..MaxCsvRows }

CsvInit ==
    /\ p_Idle
    /\ s_Idle
    /\ run_Idle
    /\ c_pc = "input"
    /\ c_file \in CsvFiles
    /\ c_label \in {"toxic", "id"}
    /\ c_filter \in {None} \cup Languages
    /\ c_out = [err |-> FALSE, val |-> <<>>]

MakeDataset ==
    /\ c_pc = "input"
    /\ c_out' = make_sentence_dataset_from_csv(c_file, c_label, c_filter)
    /\ c_pc' = "made"
    /\ UNCHANGED <<c_file, c_label, c_filter, p_vars, run_vars, s_vars>>

CsvNext == MakeDataset

SpecCsv == CsvInit /\ [][CsvNext]_vars

\* ------------------------------------------------------------------------
\* Specification of the prediction cell on the sizes of its datasets
\* ------------------------------------------------------------------------
SizeReplicas == (1..MaxGpus) \cup {TPU_REPLICAS}

SizeRows ==
    (0..SizeWindow)
      \cup ((TEST_DATASET_SIZE - SizeWindow)..(TEST_DATASET_SIZE + SizeWindow))

SizeInit ==
    /\ p_Idle
    /\ c_Idle
    /\ run_Idle
    /\ s_pc = "predict"
    /\ s_batch \in {PER_REPLICA_BATCH * r : r \in SizeReplicas}
    /\ s_rows \in SizeRows
    /\ s_probs = 0
    /\ s_ids = 0
    /\ s_lines = 0

\* predict returns one probability per element of test_dataset
SizePredict ==
    /\ s_pc = "predict"
    /\ \/ /\ s_probs' = PipelineSize(s_rows, s_batch)
          /\ s_pc' = "ids"
       \/ /\ PipelineSize(s_rows, s_batch) = 0
          /\ s_pc' = "error"
          /\ UNCHANGED s_probs
    /\ UNCHANGED <<s_batch, s_rows, s_ids, s_lines, p_vars, c_vars, run_vars>>

\* test_ids is the first batch of at most TEST_DATASET_SIZE ids
SizeGatherIds ==
    /\ s_pc = "ids"
    /\ IF PipelineSize(s_rows, s_batch) = 0
       THEN /\ s_pc' = "error"
            /\ UNCHANGED s_ids
       ELSE /\ s_ids' = FirstBatchSize(PipelineSize(s_rows, s_batch), TEST_DATASET_SIZE)
            /\ s_pc' = "save"
    /\ UNCHANGED <<s_batch, s_rows, s_probs, s_lines, p_vars, c_vars, run_vars>>

\* np.rec.fromarrays raises ValueError when the two arrays differ in shape
SizeWrite ==
    /\ s_pc = "save"
    /\ IF s_ids # s_probs
       THEN /\ s_pc' = "error"
            /\ UNCHANGED s_lines
       ELSE /\ s_lines' = 1 + s_ids
            /\ s_pc' = "done"
    /\ UNCHANGED <<s_batch, s_rows, s_probs, s_ids, p_vars, c_vars, run_vars>>

SizeNext == SizePredict \/ SizeGatherIds \/ SizeWrite

SpecSizes == SizeInit /\ [][SizeNext]_vars

\* ------------------------------------------------------------------------
\* Properties
\* ------------------------------------------------------------------------

\* C6: parse_string_list_into_ints returns, for "(v1,...,vK)" with
\* K = SEQUENCE_LENGTH, exactly the integers v1..vK, and whatever the number of
\* elements of the list, a result it returns has length SEQUENCE_LENGTH.
C6_ParseFixedLength ==
    p_pc = "parsed" =>
        /\ (Len(p_values) = SEQUENCE_LENGTH /\ p_pad = <<0, 0>>)
               => (~p_out.err /\ p_out.val = p_values)
        /\ ~p_out.err => Len(p_out.val) = SEQUENCE_LENGTH

C6_Witness ==
    /\ p_pc = "parsed"
    /\ Len(p_values) = SEQUENCE_LENGTH
    /\ p_pad = <<0, 0>>
    /\ ~p_out.err
    /\ p_out.val[1] = 102
    /\ p_out.val[SEQUENCE_LENGTH] = 0 - 7

\* the rows of the file that the dataset is to yield, in file order
C8_Wanted == SelectSeq(c_file, LAMBDA r : c_filter = None \/ r.lang = c_filter)

\* C8: make_sentence_dataset_from_csv yields exactly the rows whose 'lang' is
\* the language filtered for (all rows without a filter), in file order, each
\* as (features, labels) with features holding exactly the three parsed list
\* columns and labels holding only 'labels', the value of the label column.
C8_CsvDataset ==
    c_pc = "made" =>
        /\ ~c_out.err
        /\ Len(c_out.val) = Len(C8_Wanted)
        /\ \A j \in 1..Len(c_out.val) :
              /\ DOMAIN c_out.val[j].features = ListColumns
              /\ c_out.val[j].features["input_word_ids"] = WordIds(C8_Wanted[j].id)
              /\ c_out.val[j].features["input_mask"] = InputMask
              /\ c_out.val[j].features["all_segment_id"] = SegmentIds
              /\ DOMAIN c_out.val[j].labels = {"labels"}
              /\ c_out.val[j].labels["labels"] = C8_Wanted[j][c_label]

C8_Witness ==
    /\ c_pc = "made"
    /\ c_filter = "it"
    /\ Len(c_file) = 3
    /\ Len(c_out.val) = 2
    /\ c_out.val[1].labels["labels"] = 1
    /\ c_out.val[2].labels["labels"] = 3
    /\ c_label = "id"

\* the data rows of submission.csv
DataRows == IF Len(submission) = 0 THEN <<>> ELSE Tail(submission)

\* the comma-separated fields of a line
Fields(line) == Split(line, ",", Len(line))

\* C1: submission.csv has exactly one data row per example of the test file.
C1_OneRowPerExample == pc = "done" => Len(DataRows) = Len(test_file)

\* the inputs of the model for example e, as the test file was written from them
TrueFeatures(e) ==
    [input_word_ids |-> WordIds(e), input_mask |-> InputMask,
     all_segment_id |-> SegmentIds]

\* the probability of the model for example e
TrueProbability(e) == Sigmoid(Logit(weights, TrueFeatures(e)))

\* the examples of the test file whose identifier is written idstr
ExamplesWithId(idstr) ==
    {test_file[r].id : r \in {q \in 1..Len(test_file) : IntToStr(test_file[q].id) = idstr}}

\* the id and the probability belong to one example of the test file
C2_SameExample(idstr, p) ==
    \A es \in {ExamplesWithId(idstr)} :
        es # {} /\ \A e \in es : p = TrueProbability(e)

C2_SameExampleWritten(fields) ==
    \A es \in {ExamplesWithId(fields[1])} :
        es # {} /\ \A e \in es : fields[2] = FormatF(TrueProbability(e))

\* C2: every data row of submission.csv holds the identifier of an example of
\* the test file and the prediction of the model for that example; the i-th
\* id of the second pass and the i-th probability of the first pass belong
\* to the same example.
C2_IdsMatchPredictions ==
    /\ pc \in {"save", "done"} =>
          \A i \in 1..Len(test_ids) :
              i <= Len(probabilities) /\ C2_SameExample(test_ids[i], probabilities[i])
    /\ pc = "done" =>
          \A rows \in {DataRows} :
              \A k \in 1..Len(rows) :
                  \A fields \in {Fields(rows[k])} : C2_SameExampleWritten(fields)

C2_Witness ==
    /\ pc = "done"
    /\ Len(DataRows) = 2 * PER_REPLICA_BATCH
    /\ Fields(DataRows[2 * PER_REPLICA_BATCH])[1] = <<"1", "2", "7">>
    /\ probabilities[1] # probabilities[2]

\* C3: test_ids has as many elements as probabilities.
C3_RowCountMatches == s_pc = "save" => s_ids = s_probs

IsDecimalInt(f) ==
    /\ Len(f) >= 1
    /\ \A i \in 1..Len(f) : IsDigit(f[i]) \/ (i = 1 /\ f[i] = "-" /\ Len(f) > 1)

\* digits, a point, six digits
IsFixedSix(f) ==
    /\ Len(f) >= 8
    /\ f[Len(f) - 6] = "."
    /\ \A i \in 1..Len(f) : i # Len(f) - 6 => IsDigit(f[i])

\* C4: the first line of submission.csv is exactly "id,toxic"; every other line
\* has two comma-separated fields, the id as a decimal string and the
\* probability with six digits after the decimal point.
C4_FileFormat ==
    pc = "done" =>
        /\ submission[1] = <<"i", "d", ",", "t", "o", "x", "i", "c">>
        /\ \A rows \in {DataRows} :
              \A k \in 1..Len(rows) :
                  \A fields \in {Fields(rows[k])} :
                      /\ Len(fields) = 2
                      /\ IsDecimalInt(fields[1])
                      /\ IsFixedSix(fields[2])

C4_Witness ==
    /\ pc = "done"
    /\ Len(submission) = PER_REPLICA_BATCH + 1
    /\ submission[7] = <<"5", ",", "0", ".", "0", "1", "3", "9", "2", "4">>

\* the value of a field "d...d.dddddd" in millionths
Millionths(f) ==
    DigitsToNat(SubSeq(f, 1, Len(f) - 7), 1, 0) * 1000000
        + DigitsToNat(SubSeq(f, Len(f) - 5, Len(f)), 1, 0)

\* C5: every value of the toxic column lies in [0, 1], and so does every
\* probability that predict returned.
C5_ProbabilityRange ==
    /\ \A i \in 1..Len(probabilities) : probabilities[i] >= 0 /\ probabilities[i] <= ProbOne
    /\ pc = "done" =>
          \A rows \in {DataRows} :
              \A k \in 1..Len(rows) :
                  \A fields \in {Fields(rows[k])} :
                      /\ IsFixedSix(fields[2])
                      /\ Millionths(fields[2]) <= 1000000

\* a value just below 1.0 is written as 1.000000, one just above 0.0 as 0.000000
C5_Witness ==
    /\ pc = "done"
    /\ \E k \in 1..Len(DataRows) :
          /\ probabilities[k] = ProbOne - 5
          /\ Fields(DataRows[k])[2] = <<"1", ".", "0", "0", "0", "0", "0", "0">>
    /\ \E k \in 1..Len(DataRows) :
          /\ probabilities[k] = 4
          /\ Fields(DataRows[k])[2] = <<"0", ".", "0", "0", "0", "0", "0", "0">>

\* the phase that the statement at pc belongs to: 0 set-up, 1 load data,
\* 2 build model, 3 evaluate, 4 train, 5 evaluate, 6 predict, 7 write file,
\* 8 finished
PhaseOf(at) ==
    IF at \in {"detect", "strategy", "policy", "config"} THEN 0
    ELSE IF at = "load" THEN 1
    ELSE IF at = "build" THEN 2
    ELSE IF at = "eval_before" THEN 3
    ELSE IF at = "fit" THEN 4
    ELSE IF at = "eval_after" THEN 5
    ELSE IF at \in {"make_test", "predict", "ids"} THEN 6
    ELSE IF at = "save" THEN 7
    ELSE 8

C7_Order ==
    /\ train_steps > 0 => eval_before = <<"Spanish", "Italian", "Turkish", "Combined">>
    /\ eval_after # <<>> => train_steps = EPOCHS * STEPS_PER_EPOCH /\ epoch = EPOCHS
    /\ (pc \in {"ids", "save", "done"} \/ probabilities # <<>>) =>
           /\ eval_after = <<"Spanish", "Italian", "Turkish", "Combined">>
           /\ train_steps = EPOCHS * STEPS_PER_EPOCH
    /\ submission # <<>> => pc = "done" /\ Len(DataRows) = Len(probabilities)

C7_Step ==
    /\ pc' # "error" => PhaseOf(pc') \in {PhaseOf(pc), PhaseOf(pc) + 1}
    /\ train_steps > 0 => eval_before' = eval_before
    /\ eval_after # <<>> => train_steps' = train_steps
    /\ probabilities # <<>> => (eval_after' = eval_after /\ probabilities' = probabilities)
    /\ submission # <<>> => submission' = submission

C9_Bounded ==
    /\ train_steps <= EPOCHS * STEPS_PER_EPOCH
    /\ consumed <= TRAIN_DATA_LENGTH
    /\ STEPS_PER_EPOCH * BATCH_SIZE <= TRAIN_DATA_LENGTH
    /\ pc = "fit" => (validations = epoch /\ train_steps = epoch * STEPS_PER_EPOCH + step)
    /\ pc \in {"eval_after", "make_test", "predict", "ids", "save", "done"} =>
           (train_steps = EPOCHS * STEPS_PER_EPOCH /\ validations = EPOCHS)

\* what fit still has to do: training steps and validations
C9_Remaining == EPOCHS * (STEPS_PER_EPOCH + 1) - (train_steps + validations)

C9_Progress ==
    pc = "fit" => (C9_Remaining' < C9_Remaining /\ C9_Remaining' >= 0)

\* C9: fit does exactly EPOCHS * STEPS_PER_EPOCH training steps and returns:
\* while it runs it can always take a step, every step brings it nearer to
\* its end, the Combined validation set is evaluated once after each epoch,
\* and an epoch consumes at most TRAIN_DATA_LENGTH examples.
C9_TrainingTerminates ==
    /\ [](C9_Bounded /\ (pc = "fit" => ENABLED (TrainStep \/ ValidateEpoch)))
    /\ [][C9_Progress]_vars

C9_Witness ==
    /\ pc = "eval_after"
    /\ BATCH_SIZE = PER_REPLICA_BATCH
    /\ train_steps = 17460
    /\ validations = 5

\* C10: exactly one strategy is selected, the TPU strategy on a TPU, otherwise
\* the mirrored strategy with more than one GPU, otherwise the default one;
\* gpus is never read while unbound; the policy is mixed_bfloat16 exactly on a
\* TPU and otherwise mixed_float16 with XLA compilation switched on.
C10_HardwareDetection ==
    /\ ~name_error
    /\ pc \notin {"detect", "strategy"} =>
           strategy = IF hw.tpu THEN "TPUStrategy"
                      ELSE IF hw.gpus > 1 THEN "MirroredStrategy"
                      ELSE "DefaultStrategy"
    /\ pc \notin {"detect", "strategy", "policy"} =>
           /\ policy = IF hw.tpu THEN "mixed_bfloat16" ELSE "mixed_float16"
           /\ ~hw.tpu => jit

C10_Witness ==
    /\ pc = "config"
    /\ hw.tpu
    /\ ~gpus.bound
    /\ strategy = "TPUStrategy"
    /\ policy = "mixed_bfloat16"

====
